---- MODULE Spec2Model ----
(***************************************************************************)
(* Model of the Telegram bonus bot (src/main.py): the lazily created,      *)
(* lock-protected asyncpg pool of BotService, the contact handler and the  *)
(* /webhook endpoint.  Every request is an asyncio task; a step of the     *)
(* model runs a task from one suspension point (await) to the next.        *)
(***************************************************************************)
EXTENDS Integers, Sequences, FiniteSets, TLC

\* ------------------------------------------------------------------ bounds
NReq == 2       \* concurrent webhook requests
NClose == 2     \* callers of BotService.close()

NHandler == 1   \* requests that run with the whole input space
MaxHead == 3    \* characters in front of the digit block of a phone text
Requests == 1..NReq
Handlers == 1..NHandler
Closers == (NReq + 1)..(NReq + NClose)
Tasks == Requests \cup Closers

\* Each _ensure_pool call starts at most one create_pool, and a request calls
\* _ensure_pool twice (log_usage_stat, then fetch_user_row).
PoolIds == 1..(2 * NReq)

\* --------------------------------------------------------------- constants
None == 0
HTTP_200_OK == 200
HTTP_400_BAD_REQUEST == 400
HTTP_500_INTERNAL_SERVER_ERROR == 500

Reply(kind, amount, date) == [kind |-> kind, amount |-> amount, date |-> date]
NoReply == Reply("", 0, "")
MSG_START == Reply("MSG_START", 0, "")
MSG_INVALID_CONTACT == Reply("MSG_INVALID_CONTACT", 0, "")
MSG_NO_BONUS == Reply("MSG_NO_BONUS", 0, "")
\* the literal of the except branch of handle_contact
MSG_APOLOGY == Reply("MSG_APOLOGY", 0, "")

\* Exceptions, by the class the except clauses tell apart.
NoExc == "none"
PoolUnavailable == "RuntimeError: Database pool is unavailable"
OtherRuntimeError == "RuntimeError"
OtherException == "Exception"
OverflowError == "OverflowError"

\* ------------------------------------------------------------------ inputs
Digits == {"0", "1", "2", "3", "4", "5", "6", "7", "8", "9"}
PhoneEmpty == << >>
PhoneNoDigits == << "+" >>
PhoneShort == << "1", "2", "3" >>
PhoneFull == << "+", "7", "9", "9", "9", "1", "2", "3", "4", "5", "6", "7" >>
Phones == {PhoneEmpty, PhoneNoDigits, PhoneShort, PhoneFull}

\* The arguments of normalize_phone applied on its own: up to MaxHead digits
\* and signs, alone (short texts) or in front of nine digits (9 to 12 digits).
HeadChars == {"7", "8", "9", "+"}
Heads == UNION {[1..n -> HeadChars] : n \in 0..MaxHead}
Block == << "9", "9", "1", "2", "3", "4", "5", "6", "7" >>
PhoneTexts == Heads \cup {h \o Block : h \in Heads}

\* message.from_user.id is user 1; contact.user_id is that user, somebody else
\* or absent
Owners == {None, 1, 2}

\* Kinds of body: "badjson" is no JSON, "badupdate" is JSON that Update(**data)
\* rejects, "start" is the /start message, "other" is an update no handler
\* matches (no message, or a message with no contact), "contact" is a message
\* with a contact.
Body(kind, owner, phone) == [kind |-> kind, sender |-> 1, owner |-> owner, phone |-> phone]
NoBody == Body("", None, PhoneEmpty)
Bodies ==
    {Body(k, None, PhoneEmpty) : k \in {"badjson", "badupdate", "other", "start"}}
    \cup {Body("contact", o, PhoneFull) : o \in Owners}
    \cup {Body("contact", 1, p) : p \in Phones}

\* Stored rows: the balance column and the last visit.
Balance(tag, n) == [tag |-> tag, n |-> n]
Balances == {Balance("null", 0), Balance("num", 0), Balance("num", 1250),
             Balance("num", -5), Balance("text", 0),
             Balance("nan", 0), Balance("inf", 0)}
Visits == {"None", "2024-08-15"}
Row(bal, visit) == [bonus_balances |-> bal, last_date_visit |-> visit]
Rows == {Row(b, v) : b \in Balances, v \in Visits}
NoRow == Row(Balance("null", 0), "None")

\* ------------------------------------------------------------------- state
VARIABLES
    _pool,        \* BotService._pool: None or the id of a pool object
    poolState,    \* per pool object: "none", "failed", "open", "closing", "closed"
    closeCalls,   \* per pool object: how often Pool.close() was invoked on it
    nCreate,      \* asyncpg.create_pool calls started so far
    lockOwner,    \* BotService._pool_lock: the task holding it, or None
    lockWaiters,  \* the tasks queued on the lock, in arrival order
    pc,           \* per task: where it is suspended
    call,         \* per task: the BotService method it runs
    body,         \* per request: the webhook body
    attempt,      \* per task: the pool id of the create_pool its current call started
    got,          \* per task: the pool its current _ensure_pool call returned
    exc,          \* per task: the exception last raised in it (caught or on its way up)
    waited,       \* per task: its current call queued on the lock
    sawFail,      \* per task: a create_pool failed while its current call was queued
    logRes,       \* per request: how log_usage_stat ended
    lookup,       \* per request: how get_guest_bonus ended
    row,          \* per request: the row fetchrow returned
    out,          \* per request: the reply about to be sent
    replies,      \* per request: the replies handed to message.answer
    http,         \* per request: the status of the webhook response
    storage,      \* per request: its BotService calls that reached _ensure_pool
    logs,         \* per request: the log entries written with a phone in them
    fn,           \* the static method applied on its own, or "none"
    arg,          \* its argument
    returned,     \* whether it has returned or raised
    result        \* what it returned or raised

poolVars == << _pool, poolState, closeCalls, nCreate, lockOwner, lockWaiters >>
callVars == << attempt, got, exc, waited, sawFail >>
reqVars == << body, logRes, lookup, row, out, replies, http, storage, logs >>
\* what the continuations of a request's storage calls assign
flowVars == << pc, call, exc, attempt, logRes, lookup, row, out, http >>
\* a static method of BotService applied on its own
pureVars == << fn, arg, returned, result >>
vars == << poolVars, pc, call, callVars, reqVars, pureVars >>

\* The state after BotService.__init__ (lines 92-97), no request received.
InitService ==
    /\ _pool = None
    /\ poolState = [p \in PoolIds |-> "none"]
    /\ closeCalls = [p \in PoolIds |-> 0]
    /\ nCreate = 0
    /\ lockOwner = None
    /\ lockWaiters = << >>
    /\ pc = [t \in Tasks |-> "idle"]
    /\ call = [t \in Tasks |-> "none"]
    /\ body = [t \in Requests |-> NoBody]
    /\ attempt = [t \in Tasks |-> None]
    /\ got = [t \in Tasks |-> None]
    /\ exc = [t \in Tasks |-> NoExc]
    /\ waited = [t \in Tasks |-> FALSE]
    /\ sawFail = [t \in Tasks |-> FALSE]
    /\ logRes = [t \in Requests |-> "none"]
    /\ lookup = [t \in Requests |-> "none"]
    /\ row = [t \in Requests |-> NoRow]
    /\ out = [t \in Requests |-> NoReply]
    /\ replies = [t \in Requests |-> << >>]
    /\ http = [t \in Requests |-> 0]
    /\ storage = [t \in Requests |-> {}]
    /\ logs = [t \in Requests |-> {}]

Init ==
    /\ InitService
    /\ fn = "none"
    /\ arg = None
    /\ returned = FALSE
    /\ result = None

\* ---------------------------------------------------------- pure functions
isdigit(ch) == ch \in Digits

normalize_phone(phone) ==
    LET digits == SelectSeq(phone, isdigit)
    IN  IF Len(digits) >= 10
        THEN SubSeq(digits, Len(digits) - 9, Len(digits))
        ELSE digits

\* int(Decimal(str(value))): text that is no number raises InvalidOperation and
\* NaN raises ValueError (both caught, 0), Infinity raises OverflowError, which
\* the except clause does not name.
format_bonus_amount(value) ==
    CASE value.tag = "num" -> [exc |-> NoExc, n |-> value.n]
      [] value.tag = "inf" -> [exc |-> OverflowError, n |-> 0]
      [] OTHER -> [exc |-> NoExc, n |-> 0]

expire_date(last_visit) ==
    IF last_visit = "None" THEN "unknown" ELSE "15.08.2025"

parse_guest_info(r) ==
    [bonus_balances |-> IF r.bonus_balances.tag = "null"
                        THEN Balance("num", 0) ELSE r.bonus_balances,
     expire_date |-> expire_date(r.last_date_visit)]

\* the expiry line appended for a zero amount too
expiry_appended_from_zero(bonus_amount) == bonus_amount >= 0

\* if bonus_amount > 0 (line 288)
expiry_appended(bonus_amount) == bonus_amount > 0

\* MSG_BALANCE_TEMPLATE, with MSG_EXPIRY_TEMPLATE appended when the amount is > 0
response_text(bonus_amount, date) ==
    Reply("MSG_BALANCE", bonus_amount, IF expiry_appended(bonus_amount) THEN date ELSE "")

\* ------------------------------------------------------------------- pool
_pool_active ==
    /\ _pool # None
    /\ poolState[_pool] \notin {"closing", "closed"}

\* a lock that never reports itself taken
locked_never == FALSE

\* asyncio.Lock: taken at once when free, else the caller queues; release
\* hands the lock to the first waiter.
locked == lockOwner # None

Release ==
    /\ lockOwner' = IF lockWaiters = << >> THEN None ELSE Head(lockWaiters)
    /\ lockWaiters' = IF lockWaiters = << >> THEN << >> ELSE Tail(lockWaiters)

\* The lock is taken and create_pool is awaited (lines 110-119).
StartCreate(t) ==
    /\ nCreate' = nCreate + 1
    /\ attempt' = [attempt EXCEPT ![t] = nCreate + 1]
    /\ storage' = [storage EXCEPT ![t] = @ \cup {call[t]}]

\* a pool returned to the caller and not stored
stored_handle_dropped(p) == None

\* self._pool = await asyncpg.create_pool(...) (line 115)
stored_handle(p) == p

\* an except branch that leaves the half-built pool stored
except_branch_keeps_pool(p) == [pool |-> p, raise |-> PoolUnavailable]

\* an except branch that logs and does not raise
except_branch_swallows(p) == [pool |-> None, raise |-> NoExc]

\* The except branch of _ensure_pool: the handle it stores and what it raises.
except_branch(p) == [pool |-> None, raise |-> PoolUnavailable]

\* an except clause that does not cover the pool failure
log_caught_query_only(e) == e # PoolUnavailable

\* except Exception in log_usage_stat
log_caught(e) == TRUE

\* a bare re-raise of every exception
reraised_any(e) == TRUE

\* except RuntimeError: raise in fetch_user_row
reraised(e) == e \in {PoolUnavailable, OtherRuntimeError}

\* feed_update called outside the try
webhook_status_unguarded(raised) ==
    IF raised THEN HTTP_500_INTERNAL_SERVER_ERROR ELSE HTTP_200_OK

\* telegram_webhook after dp.feed_update, which may have raised
webhook_status(raised) == HTTP_200_OK

\* the handle cleared in the try instead of the finally
handle_after_close_in_try(ok) == IF ok THEN None ELSE _pool

\* the finally branch of close()
handle_after_close(ok) == None

\* the ownership check left out
ownership_mismatch_unchecked(b) == FALSE

\* if message.contact.user_id != message.from_user.id
ownership_mismatch(b) == b.owner # b.sender

\* A log entry: the message of the logger call and the phone text it is
\* formatted with.
LogEntry(message, phone) == [message |-> message, phone |-> phone]

\* logger.error of the except branch of handle_contact (line 273), written when
\* get_guest_bonus raised.
LogFetchFailure(t) ==
    logs' = [logs EXCEPT ![t] =
        IF lookup'[t] = "raised"
        THEN @ \cup {LogEntry("Failed to fetch bonus info for phone", body[t].phone)}
        ELSE @]

\* ------------------------------------------------------- continuations
\* telegram_webhook returns its response (lines 306-310) after feed_update
\* returned or raised; the task and its locals end.
Respond(t, raised) ==
    /\ http' = [http EXCEPT ![t] = webhook_status(raised)]
    /\ pc' = [pc EXCEPT ![t] = "done"]
    /\ call' = [call EXCEPT ![t] = "none"]
    /\ exc' = [exc EXCEPT ![t] = NoExc]
    /\ attempt' = [attempt EXCEPT ![t] = None]
    /\ row' = [row EXCEPT ![t] = NoRow]
    /\ out' = [out EXCEPT ![t] = NoReply]

\* log_usage_stat or fetch_user_row returns: the locals of its _ensure_pool end.
EndCall(t) ==
    /\ got' = [got EXCEPT ![t] = None]
    /\ waited' = [waited EXCEPT ![t] = FALSE]
    /\ sawFail' = [sawFail EXCEPT ![t] = FALSE]

\* _ensure_pool returns a pool to log_usage_stat or fetch_user_row, which
\* awaits pool.acquire() and the statement.
ReturnPool(t, p) ==
    /\ got' = [got EXCEPT ![t] = p]
    /\ pc' = [pc EXCEPT ![t] = "acquire"]
    /\ UNCHANGED << call, logRes, lookup, row, out, http >>

\* log_usage_stat ends (e = NoExc: the insert was done) and handle_contact goes
\* on to get_guest_bonus and fetch_user_row, up to its _ensure_pool call.
LogDone(t, e) ==
    /\ exc' = [exc EXCEPT ![t] = e]
    /\ logRes' = [logRes EXCEPT ![t] =
            IF e = NoExc THEN "ok" ELSE IF log_caught(e) THEN "absorbed" ELSE "raised"]
    /\ IF body[t].phone = << >> \/ normalize_phone(body[t].phone) = << >>
       THEN /\ lookup' = [lookup EXCEPT ![t] =
                    IF body[t].phone = << >> THEN "no_phone" ELSE "no_digits"]
            /\ out' = [out EXCEPT ![t] = MSG_NO_BONUS]
            /\ pc' = [pc EXCEPT ![t] = "answer"]
            /\ call' = [call EXCEPT ![t] = "none"]
       ELSE /\ pc' = [pc EXCEPT ![t] = "ensure"]
            /\ call' = [call EXCEPT ![t] = "fetch_user_row"]
            /\ UNCHANGED << lookup, out >>
    /\ UNCHANGED << attempt, row, http >>

\* fetch_user_row ends with exception e, with no row, or with row r, and
\* handle_contact builds its reply.
FetchDone(t, e, found, r) ==
    IF e # NoExc
    THEN /\ lookup' = [lookup EXCEPT ![t] = IF reraised(e) THEN "raised" ELSE "error_none"]
         /\ out' = [out EXCEPT ![t] = IF reraised(e) THEN MSG_APOLOGY ELSE MSG_NO_BONUS]
         /\ pc' = [pc EXCEPT ![t] = "answer"]
         /\ exc' = [exc EXCEPT ![t] = e]
         /\ call' = [call EXCEPT ![t] = "none"]
         /\ UNCHANGED << attempt, logRes, row, http >>
    ELSE IF ~found
    THEN /\ lookup' = [lookup EXCEPT ![t] = "norow"]
         /\ out' = [out EXCEPT ![t] = MSG_NO_BONUS]
         /\ pc' = [pc EXCEPT ![t] = "answer"]
         /\ exc' = [exc EXCEPT ![t] = NoExc]
         /\ call' = [call EXCEPT ![t] = "none"]
         /\ UNCHANGED << attempt, logRes, row, http >>
    ELSE LET guest_info == parse_guest_info(r)
             bonus_amount == format_bonus_amount(guest_info.bonus_balances)
         IN  /\ lookup' = [lookup EXCEPT ![t] = "row"]
             /\ UNCHANGED logRes
             /\ IF bonus_amount.exc # NoExc
                THEN \* raised out of handle_contact, into telegram_webhook
                     Respond(t, TRUE)
                ELSE /\ out' = [out EXCEPT ![t] =
                             response_text(bonus_amount.n, guest_info.expire_date)]
                     /\ row' = [row EXCEPT ![t] = r]
                     /\ pc' = [pc EXCEPT ![t] = "answer"]
                     /\ exc' = [exc EXCEPT ![t] = NoExc]
                     /\ call' = [call EXCEPT ![t] = "none"]
                     /\ UNCHANGED << attempt, http >>

\* An exception e leaves the storage call of task t.
CallRaised(t, e) ==
    IF call[t] = "log_usage_stat"
    THEN LogDone(t, e)
    ELSE FetchDone(t, e, FALSE, NoRow)

\* ---------------------------------------------------------- _ensure_pool
\* Lines 107-110: the unlocked check, then the lock.
_ensure_pool(t) ==
    /\ t \in Requests
    /\ pc[t] = "ensure"
    /\ exc' = [exc EXCEPT ![t] = NoExc]
    /\ IF _pool_active
       THEN /\ ReturnPool(t, _pool)
            /\ attempt' = [attempt EXCEPT ![t] = None]
            /\ storage' = [storage EXCEPT ![t] = @ \cup {call[t]}]
            /\ UNCHANGED << poolVars, waited >>
       ELSE IF ~locked
       THEN /\ lockOwner' = t
            /\ StartCreate(t)
            /\ pc' = [pc EXCEPT ![t] = "creating"]
            /\ UNCHANGED << _pool, poolState, closeCalls, lockWaiters >>
            /\ UNCHANGED << got, waited, call, logRes, lookup, row, out, http >>
       ELSE /\ lockWaiters' = Append(lockWaiters, t)
            /\ pc' = [pc EXCEPT ![t] = "waitlock"]
            /\ attempt' = [attempt EXCEPT ![t] = None]
            /\ waited' = [waited EXCEPT ![t] = TRUE]
            /\ storage' = [storage EXCEPT ![t] = @ \cup {call[t]}]
            /\ UNCHANGED << _pool, poolState, closeCalls, nCreate, lockOwner >>
            /\ UNCHANGED << got, call, logRes, lookup, row, out, http >>
    /\ UNCHANGED << sawFail, body, replies >>
    /\ UNCHANGED << logs, pureVars >>

\* the check not repeated under the lock
recheck_skipped == FALSE

\* Line 111: the check repeated under the lock.
recheck == _pool_active

\* Lines 111-119: a queued caller got the lock.
ensure_locked(t) ==
    /\ t \in Requests
    /\ pc[t] = "waitlock"
    /\ lockOwner = t
    /\ IF recheck
       THEN /\ ReturnPool(t, _pool)
            /\ Release
            /\ UNCHANGED << _pool, poolState, closeCalls, nCreate >>
            /\ UNCHANGED << attempt, storage >>
       ELSE /\ StartCreate(t)
            /\ pc' = [pc EXCEPT ![t] = "creating"]
            /\ UNCHANGED << _pool, poolState, closeCalls, lockOwner, lockWaiters >>
            /\ UNCHANGED << got, call, logRes, lookup, row, out, http >>
    /\ UNCHANGED << exc, waited, sawFail, body, replies >>
    /\ UNCHANGED << logs, pureVars >>

\* Lines 115-125: create_pool returns or raises.
create_pool_done(t, ok) ==
    /\ t \in Requests
    /\ pc[t] = "creating"
    /\ Release
    /\ IF ok
       THEN /\ _pool' = stored_handle(attempt[t])
            /\ ReturnPool(t, attempt[t])
            /\ UNCHANGED << exc, attempt, waited, sawFail >>
       ELSE LET e == except_branch(attempt[t])
                queued == [u \in Tasks |->
                    sawFail[u] \/ (u \in Requests /\ pc[u] = "waitlock")]
            IN  /\ _pool' = e.pool
                /\ IF e.raise = NoExc
                   THEN /\ ReturnPool(t, e.pool)
                        /\ sawFail' = queued
                        /\ UNCHANGED << exc, attempt, waited >>
                   ELSE /\ CallRaised(t, e.raise)
                        /\ got' = [got EXCEPT ![t] = None]
                        /\ waited' = [waited EXCEPT ![t] = FALSE]
                        /\ sawFail' = [queued EXCEPT ![t] = FALSE]
    /\ poolState' = [poolState EXCEPT ![attempt[t]] = IF ok THEN "open" ELSE "failed"]
    /\ UNCHANGED << closeCalls, nCreate, body, replies, storage >>
    /\ LogFetchFailure(t)
    /\ UNCHANGED pureVars

\* ------------------------------------------------------ storage statements
\* pool.acquire() and the statement: a pool that is closing or closed refuses.
QueryErrors == {OtherException, OtherRuntimeError}

\* log_usage_stat, lines 193-196
log_execute(t, e) ==
    /\ t \in Requests
    /\ pc[t] = "acquire"
    /\ call[t] = "log_usage_stat"
    /\ e \in QueryErrors \cup {NoExc}
    /\ e = NoExc => got[t] # None /\ poolState[got[t]] = "open"
    /\ LogDone(t, e)
    /\ EndCall(t)
    /\ UNCHANGED << poolVars, body, replies, storage >>
    /\ UNCHANGED << logs, pureVars >>

FetchOutcomes ==
    {[exc |-> e, found |-> FALSE, row |-> NoRow] : e \in QueryErrors \cup {NoExc}}
    \cup {[exc |-> NoExc, found |-> TRUE, row |-> r] : r \in Rows}

\* fetch_user_row, lines 152-158, and the rest of handle_contact up to its reply
fetchrow(t, res) ==
    /\ t \in Requests
    /\ pc[t] = "acquire"
    /\ call[t] = "fetch_user_row"
    /\ res \in FetchOutcomes
    /\ res.exc = NoExc => got[t] # None /\ poolState[got[t]] = "open"
    /\ FetchDone(t, res.exc, res.found, res.row)
    /\ EndCall(t)
    /\ UNCHANGED << poolVars, body, replies, storage >>
    /\ LogFetchFailure(t)
    /\ UNCHANGED pureVars

\* ----------------------------------------------------------------- close
\* Lines 129-132 of close(), the lock held.
CloseBody(c) ==
    IF ~_pool_active
    THEN /\ pc' = [pc EXCEPT ![c] = "done"]
         /\ Release
         /\ UNCHANGED << poolState, closeCalls >>
    ELSE /\ pc' = [pc EXCEPT ![c] = "closing"]
         /\ lockOwner' = c
         /\ poolState' = [poolState EXCEPT ![_pool] = "closing"]
         /\ closeCalls' = [closeCalls EXCEPT ![_pool] = @ + 1]
         /\ UNCHANGED lockWaiters

close(c) ==
    /\ c \in Closers
    /\ pc[c] = "idle"
    /\ call' = [call EXCEPT ![c] = "close"]
    /\ IF ~locked
       THEN CloseBody(c)
       ELSE /\ lockWaiters' = Append(lockWaiters, c)
            /\ pc' = [pc EXCEPT ![c] = "waitlock"]
            /\ UNCHANGED << poolState, closeCalls, lockOwner >>
    /\ UNCHANGED << _pool, nCreate, callVars, reqVars >>
    /\ UNCHANGED pureVars

close_locked(c) ==
    /\ c \in Closers
    /\ pc[c] = "waitlock"
    /\ lockOwner = c
    /\ CloseBody(c)
    /\ UNCHANGED << _pool, nCreate, call, callVars, reqVars >>
    /\ UNCHANGED pureVars

\* Lines 132-137: Pool.close() returns or raises; the pool is closed either way.
pool_close_done(c, ok) ==
    /\ c \in Closers
    /\ pc[c] = "closing"
    /\ _pool' = handle_after_close(ok)
    /\ Release
    /\ pc' = [pc EXCEPT ![c] = "done"]
    /\ poolState' = [poolState EXCEPT ![_pool] = "closed"]
    /\ UNCHANGED << closeCalls, nCreate, call, callVars, reqVars >>
    /\ UNCHANGED pureVars

\* --------------------------------------------------------------- webhook
\* Lines 299-305: request.json() is outside the try, Update(**data) inside.
telegram_webhook(t, b) ==
    /\ t \in Requests
    /\ pc[t] = "idle"
    /\ b \in Bodies
    /\ body' = [body EXCEPT ![t] = b]
    \* line 300 logs the message of the update, its contact included
    /\ logs' = [logs EXCEPT ![t] =
            IF b.kind = "contact"
            THEN @ \cup {LogEntry("Webhook received", b.phone)} ELSE @]
    /\ CASE b.kind = "badjson" ->
                /\ http' = [http EXCEPT ![t] = HTTP_500_INTERNAL_SERVER_ERROR]
                /\ pc' = [pc EXCEPT ![t] = "done"]
         [] b.kind = "badupdate" ->
                /\ http' = [http EXCEPT ![t] = HTTP_400_BAD_REQUEST]
                /\ pc' = [pc EXCEPT ![t] = "done"]
         [] OTHER ->
                /\ pc' = [pc EXCEPT ![t] = "feed_update"]
                /\ UNCHANGED http
    /\ UNCHANGED << poolVars, call, callVars, logRes, lookup, row, out, replies, storage >>
    /\ UNCHANGED pureVars

\* dp.feed_update finds no handler for the update.
no_handler(t) ==
    /\ t \in Requests
    /\ pc[t] = "feed_update"
    /\ body[t].kind = "other"
    /\ Respond(t, FALSE)
    /\ UNCHANGED << poolVars, got, waited, sawFail, body, logRes, lookup, replies, storage >>
    /\ UNCHANGED << logs, pureVars >>

cmd_start(t) ==
    /\ t \in Requests
    /\ pc[t] = "feed_update"
    /\ body[t].kind = "start"
    /\ out' = [out EXCEPT ![t] = MSG_START]
    /\ pc' = [pc EXCEPT ![t] = "answer"]
    /\ UNCHANGED << poolVars, call, callVars, body, logRes, lookup, row, replies, http, storage >>
    /\ UNCHANGED << logs, pureVars >>

\* Lines 254-266: the ownership check, then log_usage_stat up to _ensure_pool.
handle_contact(t) ==
    /\ t \in Requests
    /\ pc[t] = "feed_update"
    /\ body[t].kind = "contact"
    /\ IF ownership_mismatch(body[t])
       THEN /\ out' = [out EXCEPT ![t] = MSG_INVALID_CONTACT]
            /\ pc' = [pc EXCEPT ![t] = "answer"]
            /\ UNCHANGED << call, logs >>
       ELSE /\ pc' = [pc EXCEPT ![t] = "ensure"]
            /\ call' = [call EXCEPT ![t] = "log_usage_stat"]
            /\ logs' = [logs EXCEPT ![t] =
                    @ \cup {LogEntry("Received contact from", body[t].phone)}]
            /\ UNCHANGED out
    /\ UNCHANGED << poolVars, callVars, body, logRes, lookup, row, replies, http, storage >>
    /\ UNCHANGED pureVars

\* await message.answer(...): only the send of the balance text is in a try;
\* handle_contact, feed_update and telegram_webhook then return.
answer(t, ok) ==
    /\ t \in Requests
    /\ pc[t] = "answer"
    /\ replies' = [replies EXCEPT ![t] = Append(@, [msg |-> out[t], ok |-> ok])]
    /\ Respond(t, ~ok /\ out[t].kind # "MSG_BALANCE")
    /\ UNCHANGED << poolVars, got, waited, sawFail, body, logRes, lookup, storage >>
    /\ UNCHANGED << logs, pureVars >>

\* ------------------------------------------------------------------ system
\* The inputs of the pool specification: contact events that pass the ownership
\* check, with one failure and one success of each storage statement.
PassBodies == {Body("contact", 1, PhoneFull)}
PoolErrors == {NoExc, OtherException}
PoolOutcomes ==
    {[exc |-> OtherException, found |-> FALSE, row |-> NoRow],
     [exc |-> NoExc, found |-> TRUE, row |-> Row(Balance("num", 1250), "2024-08-15")]}

\* Requests contending for the pool, and close() callers.
Next ==
    \/ \E t \in Requests, b \in PassBodies : telegram_webhook(t, b)
    \/ \E t \in Requests : handle_contact(t)
    \/ \E t \in Requests : _ensure_pool(t)
    \/ \E t \in Requests : ensure_locked(t)
    \/ \E t \in Requests, ok \in BOOLEAN : create_pool_done(t, ok)
    \/ \E t \in Requests, e \in PoolErrors : log_execute(t, e)
    \/ \E t \in Requests, res \in PoolOutcomes : fetchrow(t, res)
    \/ \E t \in Requests : answer(t, TRUE)
    \/ \E c \in Closers : close(c)
    \/ \E c \in Closers : close_locked(c)
    \/ \E c \in Closers, ok \in BOOLEAN : pool_close_done(c, ok)

Spec == Init /\ [][Next]_vars

\* The webhook with its whole input space: the requests of Handlers receive any
\* body and any outcome of the storage statements and of the send, the other
\* requests contend for the pool as above.
BodiesOf(t) == IF t \in Handlers THEN Bodies ELSE PassBodies
ErrorsOf(t) == IF t \in Handlers THEN QueryErrors \cup {NoExc} ELSE PoolErrors
OutcomesOf(t) == IF t \in Handlers THEN FetchOutcomes ELSE PoolOutcomes
SendsOf(t) == IF t \in Handlers THEN BOOLEAN ELSE {TRUE}

NextWebhook ==
    \/ \E t \in Requests : \E b \in BodiesOf(t) : telegram_webhook(t, b)
    \/ \E t \in Requests : no_handler(t)
    \/ \E t \in Requests : cmd_start(t)
    \/ \E t \in Requests : handle_contact(t)
    \/ \E t \in Requests : _ensure_pool(t)
    \/ \E t \in Requests : ensure_locked(t)
    \/ \E t \in Requests, ok \in BOOLEAN : create_pool_done(t, ok)
    \/ \E t \in Requests : \E e \in ErrorsOf(t) : log_execute(t, e)
    \/ \E t \in Requests : \E res \in OutcomesOf(t) : fetchrow(t, res)
    \/ \E t \in Requests : \E ok \in SendsOf(t) : answer(t, ok)
    \/ \E c \in Closers : close(c)
    \/ \E c \in Closers : close_locked(c)
    \/ \E c \in Closers, ok \in BOOLEAN : pool_close_done(c, ok)

SpecWebhook == Init /\ [][NextWebhook]_vars

\* The static methods normalize_phone and format_bonus_amount applied on their
\* own, to every argument of the bounded sets.
progVars == << poolVars, pc, call, callVars, reqVars >>

InitPure ==
    /\ InitService
    /\ returned = FALSE
    /\ result = None
    /\ \/ fn = "normalize_phone" /\ arg \in PhoneTexts
       \/ fn = "format_bonus_amount" /\ arg \in Balances

apply_normalize_phone ==
    /\ fn = "normalize_phone"
    /\ ~returned
    /\ returned' = TRUE
    /\ result' = normalize_phone(arg)
    /\ UNCHANGED << fn, arg, progVars >>

apply_format_bonus_amount ==
    /\ fn = "format_bonus_amount"
    /\ ~returned
    /\ returned' = TRUE
    /\ result' = format_bonus_amount(arg)
    /\ UNCHANGED << fn, arg, progVars >>

NextPure ==
    \/ apply_normalize_phone
    \/ apply_format_bonus_amount

SpecPure == InitPure /\ [][NextPure]_vars

\* ================================================================ properties
Creating == {t \in Tasks : pc[t] = "creating"}
NoClose == \A c \in Closers : pc[c] = "idle"
Failed == {p \in PoolIds : poolState[p] = "failed"}
OpenPool == _pool # None /\ poolState[_pool] = "open"

\* C1: at most one asyncpg.create_pool call is in flight at any moment, for any
\* interleaving of _ensure_pool callers and close().
C1_OneConstructionInFlight == Cardinality(Creating) <= 1

\* A construction in flight with another caller and a close() queued behind it.
C1_Witness ==
    \E t \in Requests, u \in Requests, c \in Closers :
        pc[t] = "creating" /\ pc[u] = "waitlock" /\ pc[c] = "waitlock"

\* C2 as stated: of the callers that race for the unset handle, only the first
\* constructs; a caller that queued behind it never starts a construction.
C2_Original ==
    NoClose => \A t \in Requests : pc[t] = "creating" => ~waited[t]

\* C2 amended: with no close() running, every construction but at most one is a
\* failed one; a caller that queued constructs only after a construction failed
\* while it was queued; every caller that returns holds the stored, open pool.
C2_StormConstructsOnce ==
    NoClose =>
        /\ nCreate <= Cardinality(Failed) + 1
        /\ \A t \in Requests :
            /\ (pc[t] = "creating" /\ waited[t]) => sawFail[t]
            /\ pc[t] = "acquire" => got[t] = _pool /\ OpenPool

\* All callers raced in their first call: one constructed, the queued ones got
\* its pool.
C2_Witness ==
    /\ NoClose
    /\ nCreate = 1
    /\ \A t \in Requests :
        /\ call[t] = "log_usage_stat" /\ pc[t] = "acquire" /\ got[t] = _pool
        /\ ~sawFail[t]
        /\ waited[t] <=> attempt[t] = None
    /\ \E t \in Requests : waited[t]

\* C3: a failed construction leaves the handle unset at the moment the failure
\* is raised, and an _ensure_pool call that finds no open pool stored starts a
\* construction (or queues for one) instead of returning.
C3_FailureLeavesHandleUnset ==
    [][\A t \in Requests :
        /\ (pc[t] = "creating" /\ poolState'[attempt[t]] = "failed") => _pool' = None
        /\ (pc[t] = "ensure" /\ pc'[t] # "ensure" /\ ~OpenPool)
                => pc'[t] \in {"creating", "waitlock"}
        /\ (pc[t] = "waitlock" /\ pc'[t] # "waitlock" /\ ~OpenPool)
                => pc'[t] = "creating"]_vars

\* A construction failed; a call that came later, to a free lock, constructs.
C3_Witness ==
    \E t \in Requests, u \in Requests :
        /\ exc[t] = PoolUnavailable /\ attempt[t] # None
        /\ poolState[attempt[t]] = "failed"
        /\ _pool = None
        /\ pc[u] = "creating" /\ ~waited[u]

\* C4 as stated: a caller queued on the lock while a construction failed
\* receives that failure: it neither constructs nor obtains a pool.
C4_Original ==
    \A t \in Requests : sawFail[t] => pc[t] \notin {"creating", "acquire"}

\* C4 amended: the failure is raised to the caller whose own create_pool
\* failed, and to no other: it is what that caller's storage call ends with.
C4_FailureRaisedToItsCaller ==
    \A t \in Requests :
        /\ exc[t] = PoolUnavailable
                => attempt[t] # None /\ poolState[attempt[t]] = "failed"
        /\ (pc[t] \in {"ensure", "acquire", "answer"} /\ attempt[t] # None
                /\ poolState[attempt[t]] = "failed")
                => exc[t] = PoolUnavailable /\ got[t] = None

\* A caller that was queued during a failed construction made its own, which
\* succeeded, while the caller of the failed one got the failure.
C4_Witness ==
    \E t \in Requests, u \in Requests :
        /\ sawFail[t] /\ pc[t] = "acquire" /\ attempt[t] # None /\ got[t] = attempt[t]
        /\ exc[u] = PoolUnavailable

\* C5: close() does nothing on an unset handle, else invokes Pool.close() and
\* leaves the handle unset; no pool has close invoked twice and no close
\* overlaps a construction.
C5_CloseIdempotent ==
    /\ \A p \in PoolIds :
        /\ closeCalls[p] <= 1
        /\ closeCalls[p] = 1 <=> poolState[p] \in {"closing", "closed"}
    /\ _pool # None => poolState[_pool] \in {"open", "closing"}
    /\ \A c \in Closers : pc[c] = "closing" =>
        /\ lockOwner = c
        /\ Creating = {}
        /\ poolState[_pool] = "closing"
        /\ \A d \in Closers \ {c} : pc[d] # "closing"

\* Every close() call has returned: one closed the pool, the other found the
\* handle unset (or another pool), and the handle is unset.
C5_Witness ==
    /\ \A c \in Closers : pc[c] = "done"
    /\ \E p \in PoolIds : closeCalls[p] = 1 /\ poolState[p] = "closed"
    /\ _pool = None

Passed(t) == body[t].kind = "contact" /\ body[t].owner = body[t].sender
RuntimeErrors == {PoolUnavailable, OtherRuntimeError}

\* C6: a contact event whose sender id differs from the contact's owner id is
\* answered with MSG_INVALID_CONTACT and performs no storage operation.
C6_MismatchTouchesNoStorage ==
    \A t \in Requests :
        (body[t].kind = "contact" /\ body[t].owner # body[t].sender) =>
            /\ storage[t] = {}
            /\ logRes[t] = "none" /\ lookup[t] = "none"
            /\ attempt[t] = None /\ got[t] = None
            /\ pc[t] \in {"feed_update", "answer", "done"}
            /\ pc[t] = "answer" => out[t] = MSG_INVALID_CONTACT
            /\ pc[t] = "done" =>
                Len(replies[t]) = 1 /\ replies[t][1].msg = MSG_INVALID_CONTACT

\* A mismatching contact was rejected while a pool built by another request exists.
C6_Witness ==
    \E t \in Requests :
        /\ pc[t] = "done" /\ body[t].kind = "contact" /\ body[t].owner = 2
        /\ replies[t] = << [msg |-> MSG_INVALID_CONTACT, ok |-> TRUE] >>
        /\ http[t] = HTTP_200_OK /\ storage[t] = {}
        /\ OpenPool

\* C7 as stated: fetch_user_row never raises to its caller.
C7_Original == \A t \in Requests : lookup[t] # "raised"

\* C7 amended: fetch_user_row returns None for a storage error that is no
\* RuntimeError and re-raises a RuntimeError, among them the "Database pool is
\* unavailable" of a failed pool construction.
C7_RuntimeErrorReraised ==
    \A t \in Requests :
        (pc[t] = "answer" /\ lookup[t] \in {"raised", "error_none", "norow", "row"}) =>
            /\ exc[t] = OtherException => lookup[t] = "error_none"
            /\ exc[t] \in RuntimeErrors <=> lookup[t] = "raised"
            /\ exc[t] = NoExc <=> lookup[t] \in {"norow", "row"}

\* The pool could not be built for the lookup and fetch_user_row raised.
C7_Witness ==
    \E t \in Requests :
        /\ pc[t] = "answer" /\ lookup[t] = "raised" /\ exc[t] = PoolUnavailable
        /\ attempt[t] # None /\ poolState[attempt[t]] = "failed"

\* C8: after the ownership check, a storage failure during the lookup ends in
\* the "no bonus found" text or the apology, and the webhook answers 200.
C8_LookupFailureDegrades ==
    \A t \in Requests :
        (Passed(t) /\ lookup[t] \in {"raised", "error_none"}) =>
            /\ pc[t] \in {"answer", "done"}
            /\ pc[t] = "answer" => out[t] \in {MSG_NO_BONUS, MSG_APOLOGY}
            /\ pc[t] = "done" =>
                Len(replies[t]) = 1 /\ replies[t][1].msg \in {MSG_NO_BONUS, MSG_APOLOGY}
            /\ pc[t] = "done" => http[t] = HTTP_200_OK

\* The lookup raised, the apology could not be sent either, the response is 200.
C8_Witness ==
    \E t \in Requests :
        /\ pc[t] = "done" /\ Passed(t) /\ lookup[t] = "raised"
        /\ replies[t] = << [msg |-> MSG_APOLOGY, ok |-> FALSE] >>
        /\ http[t] = HTTP_200_OK

\* C9: a failure of the usage-log write never leaves log_usage_stat, the lookup
\* is attempted after it, and two requests with the same lookup outcome send the
\* same reply whether their log write succeeded or failed.
C9_LogFailureAbsorbed ==
    /\ \A t \in Requests :
        /\ logRes[t] # "raised"
        /\ (Passed(t) /\ pc[t] \in {"answer", "done"}) =>
                logRes[t] \in {"ok", "absorbed"} /\ lookup[t] # "none"
        /\ lookup[t] # "none" => logRes[t] # "none"
    /\ \A t \in Requests, u \in Requests :
        (pc[t] = "answer" /\ pc[u] = "answer" /\ Passed(t) /\ Passed(u)
            /\ lookup[t] = lookup[u] /\ row[t] = row[u]) => out[t] = out[u]

\* One log write succeeded, the other failed, both lookups found the same row.
C9_Witness ==
    \E t \in Requests, u \in Requests :
        /\ pc[t] = "answer" /\ pc[u] = "answer"
        /\ logRes[t] = "ok" /\ logRes[u] = "absorbed"
        /\ lookup[t] = "row" /\ lookup[u] = "row" /\ row[t] = row[u]
        /\ out[t] = out[u] /\ out[t].kind = "MSG_BALANCE"

\* C10: a body that is not parseable JSON is answered with HTTP 400 and touches
\* no storage.
C10_MalformedJsonRejected ==
    \A t \in Requests :
        (body[t].kind = "badjson" /\ pc[t] = "done") =>
            http[t] = HTTP_400_BAD_REQUEST /\ storage[t] = {}

\* C11: a body that is parseable JSON but carries no contact (no message, or a
\* message without a contact, such as the /start command) is answered with
\* HTTP 400 and never with HTTP 200.
C11_IncompleteUpdateRejected ==
    \A t \in Requests :
        (body[t].kind \in {"other", "start"} /\ pc[t] = "done") =>
            http[t] = HTTP_400_BAD_REQUEST

\* C12: a lookup for a phone text without 10 or 11 digits (empty, no digits,
\* or too short such as "123") reaches neither the pool nor the select query.
C12_ShortPhoneSkipsStorage ==
    \A t \in Requests :
        (Passed(t) /\ Len(SelectSeq(body[t].phone, isdigit)) \notin {10, 11}) =>
            "fetch_user_row" \notin storage[t]

\* C13: normalize_phone returns the empty string or exactly 11 digits: 11
\* digits with a leading "8" get a "7" in its place, 10 digits get a "7" in
\* front, every other digit count gives the empty string.
C13_CanonicalElevenDigits ==
    (fn = "normalize_phone" /\ returned) =>
        LET d == SelectSeq(arg, isdigit)
        IN  result = IF Len(d) = 11 /\ d[1] = "8" THEN << "7" >> \o Tail(d)
                     ELSE IF Len(d) = 11 THEN d
                     ELSE IF Len(d) = 10 THEN << "7" >> \o d
                     ELSE << >>

\* C14: the balance reply carries the expiry line if and only if the coerced
\* amount is greater than 0; a zero, missing or uncoercible balance never
\* shows it, even when the expiry date is computable.
C14_ExpiryOnlyForPositiveAmount ==
    \A t \in Requests :
        /\ (pc[t] = "answer" /\ lookup[t] = "row") =>
            LET bal == row[t].bonus_balances
                positive == bal.tag = "num" /\ bal.n > 0
            IN  /\ out[t].kind = "MSG_BALANCE"
                /\ out[t].date # "" <=> out[t].amount > 0
                /\ out[t].amount > 0 <=> positive
                /\ positive => out[t].date = expire_date(row[t].last_date_visit)
        /\ \A i \in 1..Len(replies[t]) :
            replies[t][i].msg.kind = "MSG_BALANCE" =>
                (replies[t][i].msg.date # "" <=> replies[t][i].msg.amount > 0)

\* A zero balance with a computable expiry date is answered without the expiry
\* line, next to a positive balance answered with it.
C14_Witness ==
    \E t \in Requests, u \in Requests :
        /\ pc[t] = "answer" /\ lookup[t] = "row"
        /\ row[t] = Row(Balance("num", 0), "2024-08-15")
        /\ out[t] = Reply("MSG_BALANCE", 0, "")
        /\ pc[u] = "answer" /\ lookup[u] = "row"
        /\ row[u].bonus_balances = Balance("num", 1250)
        /\ out[u] = Reply("MSG_BALANCE", 1250, "15.08.2025")

\* C15: format_bonus_amount never raises: it returns 0 for every balance value
\* whose conversion to an integer fails (text, NaN, infinity, a missing value).
C15_FormatNeverRaises ==
    (fn = "format_bonus_amount" /\ returned) =>
        /\ result.exc = NoExc
        /\ arg.tag # "num" => result.n = 0

\* C16: no log entry written while a contact event is handled carries the
\* phone number as it was received: each entry that mentions it is masked.
C16_PhoneMaskedInLogs ==
    \A t \in Requests :
        SelectSeq(body[t].phone, isdigit) # << >> =>
            \A e \in logs[t] : e.phone # body[t].phone

\* C17: once every close() call has returned, the handle is unset and no open
\* pool exists, whatever the requests still in flight do.
C17_UnsetAfterShutdown ==
    (\A c \in Closers : pc[c] = "done") =>
        /\ _pool = None
        /\ \A p \in PoolIds : poolState[p] # "open"

\* C18: a contact event whose contact carries no owner id is not rejected: it
\* never gets the ownership rejection and goes on to usage logging and lookup.
C18_AbsentOwnerNotRejected ==
    \A t \in Requests :
        (body[t].kind = "contact" /\ body[t].owner = None) =>
            /\ out[t] # MSG_INVALID_CONTACT
            /\ \A i \in 1..Len(replies[t]) : replies[t][i].msg # MSG_INVALID_CONTACT
            /\ pc[t] \in {"answer", "done"} => "log_usage_stat" \in storage[t]

\* C19: every contact event that reaches handle_contact ends with exactly one
\* reply attempt, whose text is the ownership rejection, the apology, the "no
\* bonus found" text or the balance text; no path sends none or two.
C19_ExactlyOneReply ==
    \A t \in Requests :
        body[t].kind = "contact" =>
            /\ Len(replies[t]) <= 1
            /\ pc[t] = "done" =>
                /\ Len(replies[t]) = 1
                /\ replies[t][1].msg.kind \in
                    {"MSG_INVALID_CONTACT", "MSG_APOLOGY", "MSG_NO_BONUS", "MSG_BALANCE"}

\* C20: at most one constructed and not yet closed pool exists, and the handle
\* refers to it; the handle leaves a pool only when close() has closed it,
\* never while the pool is open.
C20_SinglePoolCoherent ==
    /\ [](\A p \in PoolIds : poolState[p] \in {"open", "closing"} => _pool = p)
    /\ [][(_pool # None /\ _pool' # _pool) =>
            /\ poolState[_pool] # "open"
            /\ poolState'[_pool] = "closed"]_vars

\* A pool was closed and dropped, a new one is stored and open, and a request
\* still holds the closed one.
C20_Witness ==
    \E p \in PoolIds, q \in PoolIds, t \in Requests :
        /\ p # q /\ poolState[p] = "closed" /\ closeCalls[p] = 1
        /\ _pool = q /\ poolState[q] = "open"
        /\ pc[t] = "acquire" /\ got[t] = p
====
